---- MODULE Spec2Model ----
(***************************************************************************)
(* Model of the ai-papers-digest pipeline: the source adapters, the topic  *)
(* filter, venue detection, impact scoring and ranking of                  *)
(* src/fetch_papers.py and the orchestration in src/main.py.               *)
(*                                                                         *)
(* Python strings are sequences of one-character strings, so that          *)
(* lower(), split() and the substring test `in` are computed, not assumed. *)
(* Python dicts are functions over their keys (a missing key is a key      *)
(* outside DOMAIN), and lists of dicts are sequences of object references  *)
(* into `heap`, so that in-place mutation and aliasing are visible.        *)
(***************************************************************************)
EXTENDS Integers, Sequences, FiniteSets, TLC

----------------------------------------------------------------------------
(* Strings *)

None == "None"

UpperChars ==
  <<"A","B","C","D","E","F","G","H","I","J","K","L","M",
    "N","O","P","Q","R","S","T","U","V","W","X","Y","Z">>

LowerChars ==
  <<"a","b","c","d","e","f","g","h","i","j","k","l","m",
    "n","o","p","q","r","s","t","u","v","w","x","y","z">>

\* str.lower() on one character; the sample texts are ASCII
LowerChar(c) ==
  IF \E i \in 1..Len(UpperChars) : UpperChars[i] = c
  THEN LowerChars[CHOOSE i \in 1..Len(UpperChars) : UpperChars[i] = c]
  ELSE c

\* str.lower()
Lower(s) == [i \in 1..Len(s) |-> LowerChar(s[i])]

\* the characters str.split() treats as separators; of these the sample topics
\* hold the space only
Whitespace == {" "}

\* Python's `kw in text` for strings
Contains(text, kw) ==
  \E i \in 0..(Len(text) - Len(kw)) : SubSeq(text, i + 1, i + Len(kw)) = kw

RECURSIVE SplitFrom(_, _, _)
\* str.split(): the maximal runs of non-whitespace characters, in order
SplitFrom(s, i, cur) ==
  IF i > Len(s)
  THEN (IF cur = <<>> THEN <<>> ELSE <<cur>>)
  ELSE IF s[i] \in Whitespace
       THEN (IF cur = <<>> THEN <<>> ELSE <<cur>>) \o SplitFrom(s, i + 1, <<>>)
       ELSE SplitFrom(s, i + 1, Append(cur, s[i]))

Split(s) == SplitFrom(s, 1, <<>>)

\* str.strip() == ""
StripIsEmpty(s) == \A i \in 1..Len(s) : s[i] \in Whitespace

Space == <<" ">>

----------------------------------------------------------------------------
(* Dicts *)

\* dict.get(k, d)
Get(p, k, d) == IF k \in DOMAIN p THEN p[k] ELSE d

\* p[k] = v
Put(p, k, v) == (k :> v) @@ p

----------------------------------------------------------------------------
(* Static tables *)

TOP_TIER_VENUES ==
  << [key |-> "neurips", name |-> <<"N","e","u","r","I","P","S">>, bonus |-> 50],
     [key |-> "icml",    name |-> <<"I","C","M","L">>,             bonus |-> 50],
     [key |-> "iclr",    name |-> <<"I","C","L","R">>,             bonus |-> 50],
     [key |-> "aamas",   name |-> <<"A","A","M","A","S">>,         bonus |-> 60],
     [key |-> "aaai",    name |-> <<"A","A","A","I">>,             bonus |-> 45],
     [key |-> "ijcai",   name |-> <<"I","J","C","A","I">>,         bonus |-> 45],
     [key |-> "cvpr",    name |-> <<"C","V","P","R">>,             bonus |-> 40],
     [key |-> "acl",     name |-> <<"A","C","L">>,                 bonus |-> 40],
     [key |-> "emnlp",   name |-> <<"E","M","N","L","P">>,         bonus |-> 40],
     [key |-> "corl",    name |-> <<"C","o","R","L">>,             bonus |-> 45] >>

VenueKeys == {TOP_TIER_VENUES[i].key : i \in 1..Len(TOP_TIER_VENUES)}

\* TOP_TIER_VENUES[venue]
VenueInfo(venue) ==
  TOP_TIER_VENUES[CHOOSE i \in 1..Len(TOP_TIER_VENUES) : TOP_TIER_VENUES[i].key = venue]

ARXIV_CATEGORIES == <<"cs.AI", "cs.MA", "cs.LG", "cs.RO", "cs.CL">>

----------------------------------------------------------------------------
(* Timestamps: an ISO string is modelled by what fromisoformat makes of    *)
(* it, [valid |-> TRUE, t |-> hours since 2024-01-01T00:00], or            *)
(* [valid |-> FALSE, t |-> 0] for a string it rejects.                     *)

HoursPerDay == 24

Unparsable == [valid |-> FALSE, t |-> 0]

IsoAt(t) == [valid |-> TRUE, t |-> t]

\* timedelta.days of (now - pub): the floor of the difference in days
DaysOld(now_t, pub) == (now_t - pub.t) \div HoursPerDay

----------------------------------------------------------------------------
(* Pure functions of src/fetch_papers.py *)

\* title.lower() + ' ' + abstract.lower()
SearchableText(paper) ==
  Lower(Get(paper, "title", <<>>)) \o Space \o Lower(Get(paper, "abstract", <<>>))

RECURSIVE FirstVenueFrom(_, _)
FirstVenueFrom(text, i) ==
  IF i > Len(TOP_TIER_VENUES) THEN None
  ELSE IF Contains(text, Lower(TOP_TIER_VENUES[i].name)) THEN TOP_TIER_VENUES[i].key
  ELSE FirstVenueFrom(text, i + 1)

\* the venue whose bonus is largest among those named in the text
BestBonusVenue(paper) ==
  LET text == SearchableText(paper)
      hits == {i \in 1..Len(TOP_TIER_VENUES) : Contains(text, Lower(TOP_TIER_VENUES[i].name))}
  IN IF hits = {} THEN None
     ELSE TOP_TIER_VENUES[CHOOSE i \in hits :
            \A j \in hits : \/ TOP_TIER_VENUES[j].bonus < TOP_TIER_VENUES[i].bonus
                            \/ (TOP_TIER_VENUES[j].bonus = TOP_TIER_VENUES[i].bonus /\ i <= j)].key

detect_paper_venue(paper) == FirstVenueFrom(SearchableText(paper), 1)

\* any(keyword in text for keyword in keywords)
AnyKeywordIn(keywords, text) ==
  \E k \in 1..Len(keywords) : Contains(text, keywords[k])

\* all(keyword in text for keyword in keywords)
AllKeywordsIn(keywords, text) ==
  \A k \in 1..Len(keywords) : Contains(text, keywords[k])

RECURSIVE FilterFrom(_, _, _)
FilterFrom(papers, keywords, i) ==
  IF i > Len(papers) THEN <<>>
  ELSE (IF AnyKeywordIn(keywords, SearchableText(papers[i])) THEN <<papers[i]>> ELSE <<>>)
       \o FilterFrom(papers, keywords, i + 1)

RECURSIVE FilterAllFrom(_, _, _)
FilterAllFrom(papers, keywords, i) ==
  IF i > Len(papers) THEN <<>>
  ELSE (IF AllKeywordsIn(keywords, SearchableText(papers[i])) THEN <<papers[i]>> ELSE <<>>)
       \o FilterAllFrom(papers, keywords, i + 1)

\* the filter with AND across keywords
FilterAllKeywords(papers, topic) ==
  IF topic = <<>> THEN papers ELSE FilterAllFrom(papers, Split(Lower(topic)), 1)

filter_papers_by_topic(papers, topic) ==
  IF topic = <<>> THEN papers ELSE FilterFrom(papers, Split(Lower(topic)), 1)

RecentDays == 30
RecentBonus == 20
OlderDays == 90
OlderBonus == 10
TopicBonus == 30
UpvoteWeight == 2
CitationWeight == 5
InfluentialWeight == 10

\* the recency bonus with the first window one day short
RecencyOffByOne(paper, now_t) ==
  LET pub == Get(paper, "published_date", Unparsable)
  IN IF ~pub.valid THEN 0
     ELSE IF DaysOld(now_t, pub) < RecentDays THEN RecentBonus
     ELSE IF DaysOld(now_t, pub) <= OlderDays THEN OlderBonus
     ELSE 0

\* the recency bonus with a date that cannot be parsed taken for today's
RecencyUnparsableRecent(paper, now_t) ==
  LET pub == Get(paper, "published_date", Unparsable)
  IN IF ~pub.valid THEN RecentBonus
     ELSE IF DaysOld(now_t, pub) <= RecentDays THEN RecentBonus
     ELSE IF DaysOld(now_t, pub) <= OlderDays THEN OlderBonus
     ELSE 0

RecencyBonus(paper, now_t) ==
  LET pub == Get(paper, "published_date", Unparsable)
  IN IF ~pub.valid THEN 0
     ELSE IF DaysOld(now_t, pub) <= RecentDays THEN RecentBonus
     ELSE IF DaysOld(now_t, pub) <= OlderDays THEN OlderBonus
     ELSE 0

\* the topic bonus matched against title and abstract
TopicInText(paper, topic) ==
  IF topic # <<>> /\ AnyKeywordIn(Split(Lower(topic)), SearchableText(paper))
  THEN TopicBonus ELSE 0

TopicRelevance(paper, topic) ==
  IF topic # <<>> /\ AnyKeywordIn(Split(Lower(topic)), Lower(Get(paper, "title", <<>>)))
  THEN TopicBonus ELSE 0

VenueBonus(paper) ==
  LET venue == Get(paper, "venue", None)
  IN IF venue # None /\ venue \in VenueKeys THEN VenueInfo(venue).bonus ELSE 0

calculate_impact_score(paper, topic, now_t) ==
    Get(paper, "upvotes", 0) * UpvoteWeight
  + Get(paper, "citations", 0) * CitationWeight
  + Get(paper, "influential_citations", 0) * InfluentialWeight
  + RecencyBonus(paper, now_t)
  + TopicRelevance(paper, topic)
  + VenueBonus(paper)

\* the dict after `paper['impact_score'] = calculate_impact_score(paper, topic)`
Scored(paper, topic, now_t) ==
  LET venue == Get(paper, "venue", None)
      p1 == IF venue # None /\ venue \in VenueKeys
            THEN Put(paper, "venue_bonus", VenueInfo(venue).bonus) ELSE paper
  IN Put(p1, "impact_score", calculate_impact_score(paper, topic, now_t))

----------------------------------------------------------------------------
(* Sample texts *)

NoTopic == <<>>
TopicAgenticAi == <<"a","g","e","n","t","i","c"," ","a","i">>
TopicBlank == <<" ">>
TopicOracle == <<"O","R","A","C","L","E">>

TitleAgentic == <<"A","g","e","n","t","i","c"," ","A","I">>
TitleOracle == <<"O","r","a","c","l","e">>
TitleVenues == <<"A","A","M","A","S"," ","N","e","u","r","I","P","S">>
TitleUntitled == <<"U","n","t","i","t","l","e","d">>

AbstractDefault == <<"N","o"," ","a","b","s","t","r","a","c","t"," ","a","v","a","i","l","a","b","l","e">>
AbstractAgentic == <<"a","g","e","n","t","i","c">>
AbstractIclr == <<"a","t"," ","I","C","L","R">>
AbstractText == <<"t","e","x","t">>

HuggingFaceDaily == "Hugging Face Daily"

\* the moments a run is started at, in hours since 2024-01-01T00:00
NowChoices == {400 * HoursPerDay + 21}

\* ages of a published_date, in hours before now: 5 days, 30 days 23 hours,
\* 31 days, 90 days 23 hours, 91 days, and one day in the future
AgeChoices ==
  { 5 * HoursPerDay, 30 * HoursPerDay + 23, 31 * HoursPerDay,
    90 * HoursPerDay + 23, 91 * HoursPerDay, 0 - HoursPerDay }

----------------------------------------------------------------------------
(* Calendar *)

IsLeap(y) == y % 4 = 0 /\ (y % 100 # 0 \/ y % 400 = 0)

DaysInYear(y) == IF IsLeap(y) THEN 366 ELSE 365

RECURSIVE YDayFrom(_, _)
\* d: days since 1 January of year y, from 0; the result counts from 1
YDayFrom(y, d) == IF d < DaysInYear(y) THEN d + 1 ELSE YDayFrom(y + 1, d - DaysInYear(y))

\* datetime.now().timetuple().tm_yday
DayOfYear(now_t) == YDayFrom(2024, now_t \div HoursPerDay)

\* the rotation indexed from the second category
CategoryShifted(now_t) ==
  ARXIV_CATEGORIES[((DayOfYear(now_t) + 1) % Len(ARXIV_CATEGORIES)) + 1]

get_daily_arxiv_category(now_t) ==
  ARXIV_CATEGORIES[(DayOfYear(now_t) % Len(ARXIV_CATEGORIES)) + 1]

----------------------------------------------------------------------------
(* Lists *)

Min(a, b) == IF a < b THEN a ELSE b

Max(a, b) == IF a > b THEN a ELSE b

\* s[:n], for n of either sign
Slice(s, n) ==
  IF n >= 0 THEN SubSeq(s, 1, Min(n, Len(s))) ELSE SubSeq(s, 1, Max(Len(s) + n, 0))

Range(s) == {s[i] : i \in 1..Len(s)}

\* all sequences over S of length at most n
SeqsUpTo(S, n) == UNION {[1..k -> S] : k \in 0..n}

----------------------------------------------------------------------------
(* External services: what a call can return *)

Failed == [ok |-> FALSE, data |-> <<>>]

Ok(data) == [ok |-> TRUE, data |-> data]

\* a call that raises once data was read: a connection lost in mid-feed, or an
\* entry that cannot be mapped
Broken(data) == [ok |-> FALSE, data |-> data]

\* entries of the trending feed; a key the feed leaves out is outside DOMAIN
HfEntryAgentic(now_t) ==
  [title |-> TitleAgentic, summary |-> AbstractText, id |-> "2401.00001",
   publishedAt |-> IsoAt(now_t - 5 * HoursPerDay), upvotes |-> 10]

HfEntryBare == [upvotes |-> 0]

HfEntryVenues ==
  [title |-> TitleVenues, summary |-> AbstractIclr, id |-> "2401.00002",
   publishedAt |-> Unparsable, upvotes |-> 10]

HfEntries(now_t) == {HfEntryAgentic(now_t), HfEntryBare, HfEntryVenues}

\* results of the arXiv search
ArxivResultVenues(now_t) ==
  [title |-> TitleVenues, summary |-> AbstractAgentic, id |-> "2401.00003v1",
   published |-> IsoAt(now_t - 100 * HoursPerDay)]

ArxivResultPlain(now_t) ==
  [title |-> TitleUntitled, summary |-> AbstractText, id |-> "2401.00001",
   published |-> IsoAt(now_t - 5 * HoursPerDay)]

ArxivResults(now_t) == {ArxivResultVenues(now_t), ArxivResultPlain(now_t)}

MaxHf == 2
MaxArxiv == 1
BulkLen == 14

\* what GET /api/daily_papers can answer
HfResponses(now_t) ==
  {Failed, Broken(<<HfEntryAgentic(now_t)>>)}
           \cup {Ok(d) : d \in SeqsUpTo(HfEntries(now_t), MaxHf)}
           \cup {Ok([i \in 1..(BulkLen \div 2) |-> HfEntryAgentic(now_t)])}

\* what the arXiv search can answer
ArxivResponses(now_t) ==
  {Failed, Broken(<<ArxivResultVenues(now_t)>>)}
           \cup {Ok(d) : d \in SeqsUpTo(ArxivResults(now_t), MaxArxiv)}
           \cup {Ok([i \in 1..BulkLen |-> ArxivResultPlain(now_t)])}

\* the body Semantic Scholar answers with for an identifier
ScholarBody(arxiv_id) ==
  IF arxiv_id = "2401.00001" THEN [citationCount |-> 3, influentialCitationCount |-> 1]
  ELSE IF arxiv_id = "2401.00002" THEN [citationCount |-> 1]
  ELSE [title |-> "t"]

----------------------------------------------------------------------------
(* Adapters *)

HfPaper(entry, now_t) ==
  [title |-> Get(entry, "title", TitleUntitled),
   abstract |-> Get(entry, "summary", AbstractDefault),
   arxiv_id |-> Get(entry, "id", ""),
   published_date |-> Get(entry, "publishedAt", IsoAt(now_t)),
   upvotes |-> Get(entry, "upvotes", 0),
   source |-> <<HuggingFaceDaily>>]

\* the trending-feed adapter returning what it had mapped when the call raised
HfKeepsPartial(num, response, now_t) ==
  LET taken == Slice(response.data, num)
  IN [i \in 1..Len(taken) |-> HfPaper(taken[i], now_t)]

\* the dicts fetch_huggingface_papers(num_papers) returns
fetch_huggingface_papers(num, response, now_t) ==
  IF ~response.ok THEN <<>>
  ELSE LET taken == Slice(response.data, num)
       IN [i \in 1..Len(taken) |-> HfPaper(taken[i], now_t)]

ArxivPaper(result, arxiv_category) ==
  LET paper == [title |-> result.title,
                abstract |-> result.summary,
                arxiv_id |-> result.id,
                published_date |-> result.published,
                upvotes |-> 0,
                source |-> <<"arXiv (", arxiv_category, ")">>,
                arxiv_category |-> arxiv_category]
      venue == detect_paper_venue(paper)
  IN IF venue # None
     THEN Put(Put(paper, "venue", venue), "source", <<VenueInfo(venue).name, " (arXiv)">>)
     ELSE paper

\* the dicts fetch_arxiv_papers(topic, num_papers, category) returns; the search
\* yields at most max_results = num_papers * 2 results
fetch_arxiv_papers(num, category, response, now_t) ==
  IF ~response.ok THEN <<>>
  ELSE LET arxiv_category == IF category # None THEN category
                             ELSE get_daily_arxiv_category(now_t)
           results == Slice(response.data, Max(num * 2, 0))
           mapped == [i \in 1..Len(results) |-> ArxivPaper(results[i], arxiv_category)]
       IN Slice(mapped, num)

\* the lookup with a failure answered by counts of -1
ScholarFailureMarked(response) ==
  IF response.ok
  THEN [citations |-> Get(response.data, "citationCount", 0),
        influential_citations |-> Get(response.data, "influentialCitationCount", 0)]
  ELSE [citations |-> -1, influential_citations |-> -1]

\* get_semantic_scholar_data(arxiv_id), given the service's answer
get_semantic_scholar_data(response) ==
  IF response.ok
  THEN [citations |-> Get(response.data, "citationCount", 0),
        influential_citations |-> Get(response.data, "influentialCitationCount", 0)]
  ELSE [citations |-> 0, influential_citations |-> 0]

----------------------------------------------------------------------------
(* State *)

VARIABLES
  pc,               \* where the run is
  now,              \* the clock, in hours since 2024-01-01T00:00
  num_papers,       \* NUM_PAPERS
  topic,            \* the topic filter; <<>> when none is given
  config_ok,        \* whether the API key and the mail settings are present
  heap,             \* the paper dicts, by object reference
  hf_papers,        \* references, as are the lists below
  arxiv_papers,
  all_papers,
  filtered_papers,
  result,           \* what fetch_high_impact_papers returns
  papers,           \* what get_papers returns
  summarized_papers,
  lookups,          \* the references a Semantic Scholar lookup was issued for, in order
  fetches,          \* the adapter calls of the run and the answers, in order
  steps,            \* the downstream steps the run has performed, in order
  downloaded,       \* how many PDFs were saved
  email_success,
  exit_code,
  ret,              \* the value returned by a function applied on its own
  lookup_failed,    \* the identifiers whose Semantic Scholar lookup failed in the run
  transport_ok,     \* whether the SMTP server accepts the message handed to it
  clock,            \* the scheduler's clock, in minutes since 2024-01-01T00:00
  next_run,         \* the time the schedule library holds for the job's next run
  runs,             \* the clock readings at which run_daily_job was started, in order
  stopped           \* why start_scheduler ended; "" while it runs

vars ==
  << pc, now, num_papers, topic, config_ok, heap, hf_papers, arxiv_papers, all_papers,
     filtered_papers, result, papers, summarized_papers, lookups, fetches, steps,
     downloaded, email_success, exit_code, ret, lookup_failed, transport_ok,
     clock, next_run, runs, stopped >>

\* the scheduler's own variables
schedulerVars == << clock, next_run, runs, stopped >>

NumPapersChoices == {0, 1, 2, 7}

Topics == {NoTopic, TopicAgenticAi, TopicBlank}

\* an entry of fetches: the adapter called and what the service answered
Call(adapter, response) == [adapter |-> adapter, response |-> response]

\* h with the dicts appended as new objects
Alloc(h, dicts) == h \o dicts

\* the references Alloc gives the new objects
NewRefs(h, dicts) == [i \in 1..Len(dicts) |-> Len(h) + i]

Init ==
  /\ pc = "main"
  /\ now \in NowChoices
  /\ num_papers \in NumPapersChoices
  /\ topic \in Topics
  /\ config_ok \in BOOLEAN
  /\ heap = <<>>
  /\ hf_papers = <<>>
  /\ arxiv_papers = <<>>
  /\ all_papers = <<>>
  /\ filtered_papers = <<>>
  /\ result = <<>>
  /\ papers = <<>>
  /\ summarized_papers = <<>>
  /\ lookups = <<>>
  /\ fetches = <<>>
  /\ steps = <<>>
  /\ downloaded = 0
  /\ email_success = FALSE
  /\ exit_code = -1
  /\ ret = <<>>
  /\ lookup_failed = {}
  /\ transport_ok = FALSE
  /\ clock = 0
  /\ next_run = 0
  /\ runs = <<>>
  /\ stopped = ""

----------------------------------------------------------------------------
(* fetch_high_impact_papers, step by step *)

\* main, up to the call of get_papers
Validate ==
  /\ pc = "main"
  /\ IF config_ok
     THEN pc' = "fetch_hf" /\ UNCHANGED exit_code
     ELSE pc' = "exited" /\ exit_code' = 1
  /\ UNCHANGED << now, num_papers, topic, config_ok, heap, hf_papers, arxiv_papers,
                  all_papers, filtered_papers, result, papers, summarized_papers, lookups,
                  fetches, steps, downloaded, email_success, ret,
                  lookup_failed, transport_ok, schedulerVars >>

\* num_papers * 3 if topic else num_papers
FetchCount(t, n) == IF t # <<>> THEN n * 3 ELSE n

FetchHf ==
  /\ pc = "fetch_hf"
  /\ \E response \in HfResponses(now) :
       LET dicts == fetch_huggingface_papers(FetchCount(topic, num_papers), response, now)
       IN /\ heap' = Alloc(heap, dicts)
          /\ hf_papers' = NewRefs(heap, dicts)
          /\ fetches' = Append(fetches, Call("hf", response))
  /\ pc' = "fetch_arxiv"
  /\ UNCHANGED << now, num_papers, topic, config_ok, arxiv_papers, all_papers,
                  filtered_papers, result, papers, summarized_papers, lookups, steps,
                  downloaded, email_success, exit_code, ret,
                  lookup_failed, transport_ok, schedulerVars >>

FetchArxiv ==
  /\ pc = "fetch_arxiv"
  /\ \E response \in ArxivResponses(now) :
       LET dicts == fetch_arxiv_papers(num_papers * 2, get_daily_arxiv_category(now),
                                       response, now)
       IN /\ heap' = Alloc(heap, dicts)
          /\ arxiv_papers' = NewRefs(heap, dicts)
          /\ all_papers' = hf_papers \o NewRefs(heap, dicts)
          /\ fetches' = Append(fetches, Call("arxiv", response))
  /\ pc' = "filter"
  /\ UNCHANGED << now, num_papers, topic, config_ok, hf_papers, filtered_papers, result,
                  papers, summarized_papers, lookups, steps, downloaded, email_success,
                  exit_code, ret,
                  lookup_failed, transport_ok, schedulerVars >>

\* the list of the referenced dicts
Deref(h, refs) == [i \in 1..Len(refs) |-> h[refs[i]]]

RECURSIVE KeptRefs(_, _, _)
\* the references of refs whose dict is among kept, matched in order
KeptRefs(h, refs, kept) ==
  IF refs = <<>> \/ kept = <<>> THEN <<>>
  ELSE IF h[Head(refs)] = Head(kept)
       THEN <<Head(refs)>> \o KeptRefs(h, Tail(refs), Tail(kept))
       ELSE KeptRefs(h, Tail(refs), kept)

Filter ==
  /\ pc = "filter"
  /\ filtered_papers' =
       IF topic # <<>>
       THEN KeptRefs(heap, all_papers, filter_papers_by_topic(Deref(heap, all_papers), topic))
       ELSE all_papers
  /\ pc' = "enrich"
  /\ UNCHANGED << now, num_papers, topic, config_ok, heap, hf_papers, arxiv_papers,
                  all_papers, result, papers, summarized_papers, lookups, fetches, steps,
                  downloaded, email_success, exit_code, ret,
                  lookup_failed, transport_ok, schedulerVars >>

EnrichCap == 20

RECURSIVE WithArxivId(_, _)
\* the references of refs whose arxiv_id is not empty, in order
WithArxivId(h, refs) ==
  IF refs = <<>> THEN <<>>
  ELSE (IF Get(h[Head(refs)], "arxiv_id", "") # "" THEN <<Head(refs)>> ELSE <<>>)
       \o WithArxivId(h, Tail(refs))

\* the lookups with no cap on the list
EnrichUncapped(h, refs) == WithArxivId(h, refs)

\* the papers of filtered_papers[:20] a lookup is issued for
EnrichTargets(h, refs) == WithArxivId(h, Slice(refs, EnrichCap))

\* the heap after the enrichment loop; down: the identifiers whose lookup fails
Enriched(h, targets, down) ==
  [o \in 1..Len(h) |->
     IF o \in Range(targets)
     THEN LET arxiv_id == h[o]["arxiv_id"]
              scholar_data == get_semantic_scholar_data(
                                IF arxiv_id \in down THEN Failed ELSE Ok(ScholarBody(arxiv_id)))
          IN Put(Put(h[o], "citations", scholar_data.citations),
                 "influential_citations", scholar_data.influential_citations)
     ELSE h[o]]

Enrich ==
  /\ pc = "enrich"
  /\ LET targets == EnrichTargets(heap, filtered_papers)
     IN /\ \E down \in SUBSET {heap[o]["arxiv_id"] : o \in Range(targets)} :
             /\ heap' = Enriched(heap, targets, down)
             /\ lookup_failed' = down
        /\ lookups' = targets
  /\ pc' = "detect"
  /\ UNCHANGED << now, num_papers, topic, config_ok, hf_papers, arxiv_papers, all_papers,
                  filtered_papers, result, papers, summarized_papers, fetches, steps,
                  downloaded, email_success, exit_code, ret,
                  transport_ok, schedulerVars >>

\* the detection loop without its guard, taking the venue of the largest bonus
DetectPassBestBonus(h, refs) ==
  [o \in 1..Len(h) |->
     IF o \in Range(refs) /\ BestBonusVenue(h[o]) # None
     THEN Put(h[o], "venue", BestBonusVenue(h[o]))
     ELSE h[o]]

\* the heap after the detection loop over refs
DetectPass(h, refs) ==
  [o \in 1..Len(h) |->
     IF o \in Range(refs) /\ Get(h[o], "venue", None) = None
                          /\ detect_paper_venue(h[o]) # None
     THEN Put(h[o], "venue", detect_paper_venue(h[o]))
     ELSE h[o]]

DetectVenues ==
  /\ pc = "detect"
  /\ heap' = DetectPass(heap, filtered_papers)
  /\ pc' = "score"
  /\ UNCHANGED << now, num_papers, topic, config_ok, hf_papers, arxiv_papers, all_papers,
                  filtered_papers, result, papers, summarized_papers, lookups, fetches,
                  steps, downloaded, email_success, exit_code, ret,
                  lookup_failed, transport_ok, schedulerVars >>

Score ==
  /\ pc = "score"
  /\ heap' = [o \in 1..Len(heap) |->
                IF o \in Range(filtered_papers) THEN Scored(heap[o], topic, now)
                ELSE heap[o]]
  /\ pc' = "rank"
  /\ UNCHANGED << now, num_papers, topic, config_ok, hf_papers, arxiv_papers, all_papers,
                  filtered_papers, result, papers, summarized_papers, lookups, fetches,
                  steps, downloaded, email_success, exit_code, ret,
                  lookup_failed, transport_ok, schedulerVars >>

ImpactScore(h, o) == h[o]["impact_score"]

RECURSIVE InsertAscending(_, _, _)
\* x placed before the first element of sorted whose score is larger
InsertAscending(h, sorted, x) ==
  IF sorted = <<>> THEN <<x>>
  ELSE IF ImpactScore(h, Head(sorted)) > ImpactScore(h, x) THEN <<x>> \o sorted
  ELSE <<Head(sorted)>> \o InsertAscending(h, Tail(sorted), x)

RECURSIVE SortAscendingFrom(_, _, _)
SortAscendingFrom(h, refs, acc) ==
  IF refs = <<>> THEN acc
  ELSE SortAscendingFrom(h, Tail(refs), InsertAscending(h, acc, Head(refs)))

\* sorted() without reverse=True
SortedAscending(h, refs) == SortAscendingFrom(h, refs, <<>>)

RECURSIVE InsertBeforeEquals(_, _, _)
\* x placed before the first element of sorted whose score is not larger
InsertBeforeEquals(h, sorted, x) ==
  IF sorted = <<>> THEN <<x>>
  ELSE IF ImpactScore(h, Head(sorted)) <= ImpactScore(h, x) THEN <<x>> \o sorted
  ELSE <<Head(sorted)>> \o InsertBeforeEquals(h, Tail(sorted), x)

RECURSIVE SortTiesReversedFrom(_, _, _)
SortTiesReversedFrom(h, refs, acc) ==
  IF refs = <<>> THEN acc
  ELSE SortTiesReversedFrom(h, Tail(refs), InsertBeforeEquals(h, acc, Head(refs)))

\* a descending sort that puts a later record before its equals
SortedTiesReversed(h, refs) == SortTiesReversedFrom(h, refs, <<>>)

RECURSIVE InsertDescending(_, _, _)
\* x placed before the first element of sorted whose score is smaller
InsertDescending(h, sorted, x) ==
  IF sorted = <<>> THEN <<x>>
  ELSE IF ImpactScore(h, Head(sorted)) < ImpactScore(h, x) THEN <<x>> \o sorted
  ELSE <<Head(sorted)>> \o InsertDescending(h, Tail(sorted), x)

RECURSIVE SortDescendingFrom(_, _, _)
SortDescendingFrom(h, refs, acc) ==
  IF refs = <<>> THEN acc
  ELSE SortDescendingFrom(h, Tail(refs), InsertDescending(h, acc, Head(refs)))

\* sorted(filtered_papers, key=lambda p: p['impact_score'], reverse=True): stable
SortedByImpact(h, refs) == SortDescendingFrom(h, refs, <<>>)

Rank ==
  /\ pc = "rank"
  /\ result' = Slice(SortedByImpact(heap, filtered_papers), num_papers)
  /\ pc' = "ranked"
  /\ UNCHANGED << now, num_papers, topic, config_ok, heap, hf_papers, arxiv_papers,
                  all_papers, filtered_papers, papers, summarized_papers, lookups, fetches,
                  steps, downloaded, email_success, exit_code, ret,
                  lookup_failed, transport_ok, schedulerVars >>

----------------------------------------------------------------------------
(* get_papers *)

\* the fallback that asks the trending feed whatever the topic
FallbackAlwaysTrending(t) == "hf"

\* the adapter the fallback of get_papers calls
FallbackAdapter(t) == IF t = <<>> \/ StripIsEmpty(t) THEN "hf" ELSE "arxiv"

GetPapers ==
  /\ pc = "ranked"
  /\ IF result # <<>>
     THEN /\ papers' = result
          /\ UNCHANGED << heap, fetches >>
     ELSE IF FallbackAdapter(topic) = "hf"
     THEN /\ \E response \in HfResponses(now) :
               LET dicts == fetch_huggingface_papers(num_papers, response, now)
               IN /\ heap' = Alloc(heap, dicts)
                  /\ papers' = NewRefs(heap, dicts)
                  /\ fetches' = Append(fetches, Call("hf", response))
     ELSE /\ \E response \in ArxivResponses(now) :
               LET dicts == fetch_arxiv_papers(num_papers, None, response, now)
               IN /\ heap' = Alloc(heap, dicts)
                  /\ papers' = NewRefs(heap, dicts)
                  /\ fetches' = Append(fetches, Call("arxiv", response))
  /\ pc' = "got_papers"
  /\ UNCHANGED << now, num_papers, topic, config_ok, hf_papers, arxiv_papers, all_papers,
                  filtered_papers, result, summarized_papers, lookups, steps, downloaded,
                  email_success, exit_code, ret,
                  lookup_failed, transport_ok, schedulerVars >>

----------------------------------------------------------------------------
(* main, after get_papers returns *)

\* main without the check of the list get_papers returned
MainCheckSkipped ==
  /\ pc = "got_papers"
  /\ pc' = "summarize"
  /\ UNCHANGED << now, num_papers, topic, config_ok, heap, hf_papers, arxiv_papers,
                  all_papers, filtered_papers, result, papers, summarized_papers, lookups,
                  fetches, steps, downloaded, email_success, exit_code, ret,
                  lookup_failed, transport_ok, schedulerVars >>

MainCheck ==
  /\ pc = "got_papers"
  /\ IF papers = <<>>
     THEN pc' = "exited" /\ exit_code' = 1
     ELSE pc' = "summarize" /\ UNCHANGED exit_code
  /\ UNCHANGED << now, num_papers, topic, config_ok, heap, hf_papers, arxiv_papers,
                  all_papers, filtered_papers, result, papers, summarized_papers, lookups,
                  fetches, steps, downloaded, email_success, ret,
                  lookup_failed, transport_ok, schedulerVars >>

\* what summarize_paper returns: the generated text, or the error text in its
\* place; either is a string the run only passes on
Summaries == {"summary"}

\* summarize_papers: a copy of every paper, with its summary
Summarize ==
  /\ pc = "summarize"
  /\ \E summary \in Summaries :
       LET dicts == [i \in 1..Len(papers) |-> Put(heap[papers[i]], "summary", summary)]
       IN /\ heap' = Alloc(heap, dicts)
          /\ summarized_papers' = NewRefs(heap, dicts)
  /\ steps' = Append(steps, "summarize")
  /\ pc' = "download"
  /\ UNCHANGED << now, num_papers, topic, config_ok, hf_papers, arxiv_papers, all_papers,
                  filtered_papers, result, papers, lookups, fetches, downloaded,
                  email_success, exit_code, ret,
                  lookup_failed, transport_ok, schedulerVars >>

\* download_all_papers: the PDF host serves every download of the run, or none
Download ==
  /\ pc = "download"
  /\ downloaded' \in {0, Len(summarized_papers)}
  /\ steps' = Append(steps, "download")
  /\ pc' = "index"
  /\ UNCHANGED << now, num_papers, topic, config_ok, heap, hf_papers, arxiv_papers,
                  all_papers, filtered_papers, result, papers, summarized_papers, lookups,
                  fetches, email_success, exit_code, ret,
                  lookup_failed, transport_ok, schedulerVars >>

\* create_index_file
WriteIndex ==
  /\ pc = "index"
  /\ steps' = Append(steps, "index")
  /\ pc' = "email"
  /\ UNCHANGED << now, num_papers, topic, config_ok, heap, hf_papers, arxiv_papers,
                  all_papers, filtered_papers, result, papers, summarized_papers, lookups,
                  fetches, downloaded, email_success, exit_code, ret,
                  lookup_failed, transport_ok, schedulerVars >>

\* format_html_email parses every published_date and raises on one it cannot parse
FormatRaises(h, refs) == \E i \in 1..Len(refs) : ~h[refs[i]]["published_date"].valid

\* send_email: False when formatting or the transport raises
SendEmail ==
  /\ pc = "email"
  /\ transport_ok' \in BOOLEAN
  /\ email_success' = (~FormatRaises(heap, summarized_papers) /\ transport_ok')
  /\ steps' = Append(steps, "email")
  /\ pc' = "finish"
  /\ UNCHANGED << now, num_papers, topic, config_ok, heap, hf_papers, arxiv_papers,
                  all_papers, filtered_papers, result, papers, summarized_papers, lookups,
                  fetches, downloaded, exit_code, ret,
                  lookup_failed, schedulerVars >>

\* the return value of main, handed to sys.exit
Finish ==
  /\ pc = "finish"
  /\ exit_code' = IF email_success /\ downloaded = Len(papers) THEN 0 ELSE 1
  /\ pc' = "exited"
  /\ UNCHANGED << now, num_papers, topic, config_ok, heap, hf_papers, arxiv_papers,
                  all_papers, filtered_papers, result, papers, summarized_papers, lookups,
                  fetches, steps, downloaded, email_success, ret,
                  lookup_failed, transport_ok, schedulerVars >>

Next ==
  \/ Validate
  \/ FetchHf
  \/ FetchArxiv
  \/ Filter
  \/ Enrich
  \/ DetectVenues
  \/ Score
  \/ Rank
  \/ GetPapers
  \/ MainCheck
  \/ Summarize
  \/ Download
  \/ WriteIndex
  \/ SendEmail
  \/ Finish

Spec == Init /\ [][Next]_vars

----------------------------------------------------------------------------
(* The functions applied on their own, to dicts drawn from bounded sets *)

MaxList == 2

UnitTopics == {NoTopic, TopicAgenticAi, TopicBlank, TopicOracle}

UnitTitles == {TitleAgentic, TitleOracle, TitleVenues, TitleUntitled}

UnitAbstracts == {AbstractDefault, AbstractAgentic, AbstractIclr}

\* a dict with the keys every adapter sets
TextPaper(title, abstract) ==
  [title |-> title, abstract |-> abstract, arxiv_id |-> "", upvotes |-> 0,
   published_date |-> Unparsable, source |-> <<HuggingFaceDaily>>]

TextPapers == {TextPaper(t, a) : t \in UnitTitles, a \in UnitAbstracts}

\* p with key k set to the element of opt, a sequence of length 0 or 1
PutOpt(p, k, opt) == IF opt = <<>> THEN p ELSE Put(p, k, opt[1])

ScorePapers(now_t) ==
  { PutOpt(PutOpt(PutOpt(
      [TextPaper(t, a) EXCEPT !.upvotes = u, !.published_date = d],
      "citations", c), "influential_citations", ic), "venue", v) :
      t \in UnitTitles, a \in {AbstractDefault, AbstractAgentic}, u \in {0, 10},
      d \in {Unparsable} \cup {IsoAt(now_t - age) : age \in AgeChoices},
      c \in {<<>>, <<3>>}, ic \in {<<>>, <<1>>},
      v \in {<<>>, <<"aamas">>, <<"cvpr">>} }

UnitInit ==
  /\ pc = "unit"
  /\ now \in NowChoices
  /\ topic \in UnitTopics
  /\ heap \in {<<p>> : p \in ScorePapers(now)} \cup SeqsUpTo(TextPapers, MaxList)
  /\ all_papers = [i \in 1..Len(heap) |-> i]
  /\ num_papers = 0
  /\ config_ok = TRUE
  /\ hf_papers = <<>>
  /\ arxiv_papers = <<>>
  /\ filtered_papers = <<>>
  /\ result = <<>>
  /\ papers = <<>>
  /\ summarized_papers = <<>>
  /\ lookups = <<>>
  /\ fetches = <<>>
  /\ steps = <<>>
  /\ downloaded = 0
  /\ email_success = FALSE
  /\ exit_code = -1
  /\ ret = <<>>
  /\ lookup_failed = {}
  /\ transport_ok = FALSE
  /\ clock = 0
  /\ next_run = 0
  /\ runs = <<>>
  /\ stopped = ""

\* filter_papers_by_topic(all_papers, topic)
UnitFilter ==
  /\ pc = "unit"
  /\ ret' = filter_papers_by_topic(Deref(heap, all_papers), topic)
  /\ filtered_papers' = KeptRefs(heap, all_papers, ret')
  /\ pc' = "unit_filter"
  /\ UNCHANGED << now, num_papers, topic, config_ok, heap, hf_papers, arxiv_papers,
                  all_papers, result, papers, summarized_papers, lookups, fetches, steps,
                  downloaded, email_success, exit_code,
                  lookup_failed, transport_ok, schedulerVars >>

\* detect_paper_venue(paper), for every paper of all_papers
UnitDetect ==
  /\ pc = "unit"
  /\ ret' = [i \in 1..Len(all_papers) |-> detect_paper_venue(heap[all_papers[i]])]
  /\ pc' = "unit_detect"
  /\ UNCHANGED << now, num_papers, topic, config_ok, heap, hf_papers, arxiv_papers,
                  all_papers, filtered_papers, result, papers, summarized_papers, lookups,
                  fetches, steps, downloaded, email_success, exit_code,
                  lookup_failed, transport_ok, schedulerVars >>

\* calculate_impact_score(paper, topic), for every paper of all_papers
UnitScore ==
  /\ pc = "unit"
  /\ ret' = [i \in 1..Len(all_papers) |->
               calculate_impact_score(heap[all_papers[i]], topic, now)]
  /\ heap' = [o \in 1..Len(heap) |-> [k \in DOMAIN Scored(heap[o], topic, now) \ {"impact_score"}
                                        |-> Scored(heap[o], topic, now)[k]]]
  /\ pc' = "unit_score"
  /\ UNCHANGED << now, num_papers, topic, config_ok, hf_papers, arxiv_papers, all_papers,
                  filtered_papers, result, papers, summarized_papers, lookups, fetches,
                  steps, downloaded, email_success, exit_code,
                  lookup_failed, transport_ok, schedulerVars >>

UnitNext ==
  \/ UnitFilter
  \/ UnitDetect
  \/ UnitScore

SpecUnit == UnitInit /\ [][UnitNext]_vars

----------------------------------------------------------------------------
(* Properties of the ranking run *)

\* the positions of the run at which fetch_high_impact_papers has returned
AfterRank == {"ranked", "got_papers", "summarize", "download", "index", "email", "finish"}

\* the positions of the run at which get_papers has returned
AfterGetPapers == AfterRank \ {"ranked"}

\* the position of object o in the list refs
IndexIn(refs, o) == CHOOSE i \in 1..Len(refs) : refs[i] = o

\* C1: the ranked list is no longer than the limit, its scores never increase from
\* one record to the next, and no filtered record left out scores more than a
\* record kept.
RankBoundedAndDescending ==
  (pc \in AfterRank \/ (pc = "exited" /\ config_ok)) =>
    /\ Len(result) <= num_papers
    /\ Range(result) \subseteq Range(filtered_papers)
    /\ \A i \in 1..(Len(result) - 1) :
         ImpactScore(heap, result[i]) >= ImpactScore(heap, result[i + 1])
    /\ \A o \in Range(filtered_papers) \ Range(result) :
         \A k \in Range(result) : ImpactScore(heap, o) <= ImpactScore(heap, k)

\* a ranking that kept some records, left one out, and ordered unequal scores
RankTruncates ==
  /\ pc = "ranked"
  /\ Len(result) = num_papers
  /\ Len(result) >= 2
  /\ Len(filtered_papers) > num_papers
  /\ ImpactScore(heap, result[1]) > ImpactScore(heap, result[2])
  /\ result[1] > result[2]

\* C2: the merged input is the trending records followed by the search records,
\* and two ranked records of equal score stand in the order they have there.
RankStable ==
  (pc \in AfterRank \/ (pc = "exited" /\ config_ok)) =>
    /\ all_papers = hf_papers \o arxiv_papers
    /\ \A i, j \in 1..Len(result) :
         (i < j /\ ImpactScore(heap, result[i]) = ImpactScore(heap, result[j]))
           => IndexIn(all_papers, result[i]) < IndexIn(all_papers, result[j])

\* a ranking with a tie between a trending record and a search record
RankTie ==
  /\ pc = "ranked"
  /\ \E i, j \in 1..Len(result) :
       /\ i < j
       /\ ImpactScore(heap, result[i]) = ImpactScore(heap, result[j])
       /\ result[i] \in Range(hf_papers)
       /\ result[j] \in Range(arxiv_papers)

\* the dicts the fallback call of get_papers is answered with, cut to the limit;
\* none when the call raised
FallbackEntries ==
  IF fetches[Len(fetches)].response.ok
  THEN Slice(fetches[Len(fetches)].response.data, num_papers)
  ELSE <<>>

\* C3 as stated: whenever the ranking is empty, whatever the topic, get_papers
\* returns the first `limit` entries of a fresh trending-feed fetch.
FallbackIsTrendingFeed ==
  (pc \in AfterGetPapers /\ result = <<>>) =>
    /\ Len(fetches) = 3
    /\ fetches[3].adapter = "hf"
    /\ Deref(heap, papers) = fetch_huggingface_papers(num_papers, fetches[3].response, now)

\* C3 amended: when the ranking is empty, get_papers returns the first `limit`
\* entries of a fresh trending-feed fetch if the topic is empty or blank, and the
\* first `limit` results of a fresh topic search otherwise; unscored in both cases.
FallbackByTopic ==
  (pc \in AfterGetPapers /\ result = <<>>) =>
    /\ Len(fetches) = 3
    /\ \A i \in 1..Len(papers) : "impact_score" \notin DOMAIN heap[papers[i]]
    /\ Len(papers) <= num_papers
    /\ IF topic = <<>> \/ \A i \in 1..Len(topic) : topic[i] = " "
       THEN /\ fetches[3].adapter = "hf"
            /\ Len(papers) = Len(FallbackEntries)
            /\ \A i \in 1..Len(papers) :
                 /\ heap[papers[i]].source = <<HuggingFaceDaily>>
                 /\ heap[papers[i]].title = Get(FallbackEntries[i], "title", TitleUntitled)
                 /\ heap[papers[i]].upvotes = Get(FallbackEntries[i], "upvotes", 0)
       ELSE /\ fetches[3].adapter = "arxiv"
            /\ Len(papers) = Len(FallbackEntries)
            /\ \A i \in 1..Len(papers) :
                 /\ "arxiv_category" \in DOMAIN heap[papers[i]]
                 /\ heap[papers[i]].title = FallbackEntries[i].title
                 /\ heap[papers[i]].arxiv_id = FallbackEntries[i].id

\* a fallback on the topic search, after a trending feed that matched nothing
FallbackOnTopicSearch ==
  /\ pc = "got_papers"
  /\ result = <<>>
  /\ topic = TopicAgenticAi
  /\ hf_papers # <<>>
  /\ Len(papers) = 1
  /\ fetches[3].adapter = "arxiv"

\* every adapter call of the run returned no record
NothingFetched ==
  /\ hf_papers = <<>>
  /\ arxiv_papers = <<>>
  /\ (Len(fetches) = 3 => papers = <<>>)

\* the run ended at the check after get_papers, with status 1 and nothing done
AbortedAtFetch == pc = "exited" /\ config_ok /\ steps = <<>> /\ exit_code = 1

VenueOf(paper) == Get(paper, "venue", None)

\* a venue, once set on an object, is the venue that object keeps
VenueKept ==
  \A o \in 1..Len(heap) : VenueOf(heap[o]) # None => VenueOf(heap'[o]) = VenueOf(heap[o])

\* C5: every venue a record carries is the one detection yields for it, and a step
\* of the run never changes a venue that is set.
VenueNeverOverwritten ==
  /\ [](\A o \in 1..Len(heap) :
          VenueOf(heap[o]) # None => detect_paper_venue(heap[o]) = VenueOf(heap[o]))
  /\ [][VenueKept]_vars

\* after the detection pass: a search record tagged by the adapter that names a
\* venue of a larger bonus too, and a trending record tagged by the pass
VenueSetTwice ==
  /\ pc = "score"
  /\ \E o \in Range(filtered_papers) \cap Range(arxiv_papers) :
       /\ VenueOf(heap[o]) = "neurips"
       /\ BestBonusVenue(heap[o]) = "aamas"
  /\ \E o \in Range(filtered_papers) \cap Range(hf_papers) : VenueOf(heap[o]) # None

\* C10: lookups are issued only for records among the first 20 of the filtered
\* list, at most 20 of them, and a record further down has no citations.
EnrichmentCapped ==
  /\ Len(lookups) <= 20
  /\ \A k \in 1..Len(lookups) :
       \E i \in 1..Len(filtered_papers) : i <= 20 /\ filtered_papers[i] = lookups[k]
  /\ \A i \in 1..Len(filtered_papers) :
       i > 20 =>
         /\ Get(heap[filtered_papers[i]], "citations", 0) = 0
         /\ Get(heap[filtered_papers[i]], "influential_citations", 0) = 0
         /\ (pc \in AfterRank =>
               ImpactScore(heap, filtered_papers[i])
                 = calculate_impact_score(
                     [k \in DOMAIN heap[filtered_papers[i]]
                          \ {"citations", "influential_citations"}
                        |-> heap[filtered_papers[i]][k]], topic, now))

\* 20 lookups issued, with a twenty-first record whose identifier has citations
EnrichmentCapReached ==
  /\ pc = "ranked"
  /\ Len(filtered_papers) > 20
  /\ Len(lookups) = 20
  /\ Get(heap[filtered_papers[1]], "citations", 0) > 0
  /\ heap[filtered_papers[21]]["arxiv_id"] = heap[filtered_papers[1]]["arxiv_id"]

----------------------------------------------------------------------------
(* Properties of the functions *)

\* the keywords of the topic: its lowercased whitespace-separated words
Keywords == Range(Split(Lower(topic)))

\* whole days between the publication of a dict and now
AgeInDays(paper) == (now - paper.published_date.t) \div 24

ClaimedRecency(paper) ==
  IF ~paper.published_date.valid THEN 0
  ELSE IF AgeInDays(paper) <= 30 THEN 20
  ELSE IF AgeInDays(paper) >= 31 /\ AgeInDays(paper) <= 90 THEN 10
  ELSE 0

ClaimedTopicBonus(paper) ==
  IF topic # <<>> /\ \E kw \in Keywords : Contains(Lower(paper.title), kw) THEN 30 ELSE 0

ClaimedVenueBonus(paper) ==
  IF "venue" \in DOMAIN paper
  THEN LET i == CHOOSE i \in 1..Len(TOP_TIER_VENUES) : TOP_TIER_VENUES[i].key = paper.venue
       IN TOP_TIER_VENUES[i].bonus
  ELSE 0

\* C6: the score is the sum of the six components, and the two worked examples
\* score 40 and 100.
ScoreIsSumOfComponents ==
  pc = "unit_score" =>
    \A i \in 1..Len(all_papers) :
      LET paper == heap[all_papers[i]]
      IN /\ ret[i] = paper.upvotes * 2
                     + Get(paper, "citations", 0) * 5
                     + Get(paper, "influential_citations", 0) * 10
                     + ClaimedRecency(paper)
                     + ClaimedTopicBonus(paper)
                     + ClaimedVenueBonus(paper)
         /\ ( /\ paper.upvotes = 10
              /\ Get(paper, "citations", 0) = 0
              /\ Get(paper, "influential_citations", 0) = 0
              /\ paper.published_date = IsoAt(now - 5 * 24)
              /\ topic = <<>> )
            => /\ "venue" \notin DOMAIN paper => ret[i] = 40
               /\ VenueOf(paper) = "aamas" => ret[i] = 100

\* the second worked example: 10 upvotes, 5 days old, no topic, the venue of bonus 60
ScoreExampleReached ==
  /\ pc = "unit_score"
  /\ topic = <<>>
  /\ heap[1].upvotes = 10
  /\ "citations" \notin DOMAIN heap[1]
  /\ VenueOf(heap[1]) = "aamas"
  /\ heap[1].published_date = IsoAt(now - 5 * 24)
  /\ ret[1] = 100

\* C7: the topic adds exactly 30 when it is not empty and a keyword occurs in the
\* lowercased title, and 0 otherwise.
TopicBonusFromTitleOnly ==
  pc = "unit_score" =>
    \A i \in 1..Len(all_papers) :
      LET paper == heap[all_papers[i]]
          bonus == ret[i] - calculate_impact_score(paper, <<>>, now)
      IN /\ bonus \in {0, 30}
         /\ bonus = 30 <=> ( /\ topic # <<>>
                             /\ \E kw \in Keywords : Contains(Lower(paper.title), kw) )
         /\ (\A kw \in Keywords : ~Contains(Lower(paper.title), kw)) => bonus = 0

\* a title both keywords occur in, scored with one bonus of 30
TopicBonusOnce ==
  /\ pc = "unit_score"
  /\ topic = TopicAgenticAi
  /\ heap[1].title = TitleAgentic
  /\ \A kw \in Keywords : Contains(Lower(heap[1].title), kw)
  /\ Cardinality(Keywords) = 2
  /\ ret[1] - calculate_impact_score(heap[1], <<>>, now) = 30

\* whether a keyword of the topic occurs in the lowercased title-and-abstract text
MatchesTopic(paper) ==
  \E kw \in Keywords : Contains(Lower(paper.title \o Space \o paper.abstract), kw)

\* C8: the filter returns its input when the topic is empty, and otherwise the
\* records with a keyword in their text, all of them, in their original order.
FilterKeepsMatchesInOrder ==
  pc = "unit_filter" =>
    /\ topic = <<>> => ret = Deref(heap, all_papers)
    /\ topic # <<>> =>
         /\ ret = Deref(heap, filtered_papers)
         /\ \A i, j \in 1..Len(filtered_papers) :
              i < j => filtered_papers[i] < filtered_papers[j]
         /\ Range(filtered_papers) = {o \in Range(all_papers) : MatchesTopic(heap[o])}

\* a list of two of which the filter kept the second, on one keyword of two
FilterKeptOne ==
  /\ pc = "unit_filter"
  /\ topic = TopicAgenticAi
  /\ Len(all_papers) = 2
  /\ filtered_papers = <<2>>
  /\ ~Contains(SearchableText(heap[2]), <<"a","g","e","n","t","i","c">>)

\* the places of the venue table whose lowercased name occurs in the paper's text
VenueHits(paper) ==
  {k \in 1..Len(TOP_TIER_VENUES) :
     Contains(Lower(paper.title \o Space \o paper.abstract), Lower(TOP_TIER_VENUES[k].name))}

\* C9: detection returns the key of the first table entry whose name occurs in
\* the text, and None exactly when no name occurs.
DetectsFirstInTableOrder ==
  pc = "unit_detect" =>
    \A i \in 1..Len(all_papers) :
      LET hits == VenueHits(heap[all_papers[i]])
      IN /\ ret[i] = None <=> hits = {}
         /\ hits # {} =>
              \E k \in hits : /\ ret[i] = TOP_TIER_VENUES[k].key
                              /\ \A m \in hits : k <= m

\* a text naming two venues, detected as the earlier one of the smaller bonus
DetectedEarlierVenue ==
  /\ pc = "unit_detect"
  /\ heap[1].title = TitleVenues
  /\ ret[1] = "neurips"
  /\ \E k \in VenueHits(heap[1]) : TOP_TIER_VENUES[k].bonus > VenueInfo(ret[1]).bonus

----------------------------------------------------------------------------
(* Properties of degraded inputs *)

\* the records whose lookup was issued and failed
FailedLookups == {o \in Range(lookups) : heap[o]["arxiv_id"] \in lookup_failed}

\* o is in the ranked list, or the list is full of records that score no less
EligibleInRanking(o) ==
  \/ o \in Range(result)
  \/ /\ Len(result) = num_papers
     /\ \A k \in Range(result) : ImpactScore(heap, k) >= ImpactScore(heap, o)

\* C11: a record whose lookup failed has citations and influential citations of 0,
\* stays in the filtered list, is scored, and is left out of the ranked list only
\* when the list is full of records that score no less.
FailedLookupZeroAndRanked ==
  \A o \in FailedLookups :
    /\ heap[o]["citations"] = 0
    /\ heap[o]["influential_citations"] = 0
    /\ o \in Range(filtered_papers)
    /\ (pc \in AfterRank =>
          /\ ImpactScore(heap, o) = calculate_impact_score(heap[o], topic, now)
          /\ EligibleInRanking(o))

\* a record whose lookup failed, in the ranked list ahead of another record, while a
\* lookup that succeeded brought citations
FailedLookupRanked ==
  /\ pc = "ranked"
  /\ Len(result) > 1
  /\ result[1] \in FailedLookups
  /\ \E o \in Range(lookups) \ FailedLookups : heap[o]["citations"] > 0

\* the fetches of the run that raised inside the adapter
FailedFetches == {k \in 1..Len(fetches) : ~fetches[k].response.ok}

\* C12: an adapter whose call raises returns the empty list, whichever adapter and
\* whatever was read before, the run goes on to the next step, and the merged list
\* handed to the filter is what the other adapter returned.
AdaptersFailEmpty ==
  /\ (1 \in FailedFetches => hf_papers = <<>>)
  /\ (2 \in FailedFetches => arxiv_papers = <<>>)
  /\ (3 \in FailedFetches => papers = <<>>)
  /\ (Len(fetches) >= 1 => pc # "fetch_hf")
  /\ (Len(fetches) >= 2 =>
        /\ pc # "fetch_arxiv"
        /\ all_papers = hf_papers \o arxiv_papers
        /\ (pc = "filter" /\ 1 \in FailedFetches =>
              Deref(heap, all_papers)
                = fetch_arxiv_papers(num_papers * 2, get_daily_arxiv_category(now),
                                     fetches[2].response, now))
        /\ (pc = "filter" /\ 2 \in FailedFetches =>
              Deref(heap, all_papers)
                = fetch_huggingface_papers(FetchCount(topic, num_papers),
                                           fetches[1].response, now)))
  /\ (pc = "exited" /\ config_ok => Len(fetches) >= 2)

\* the trending feed raised after an entry was read, and the ranked list holds a
\* record of the arXiv search
OtherSourceRanked ==
  /\ pc = "ranked"
  /\ fetches[1].response = Broken(<<HfEntryAgentic(now)>>)
  /\ hf_papers = <<>>
  /\ result # <<>>
  /\ result[1] \in Range(arxiv_papers)

\* the records of a list whose published_date cannot be parsed
UnparsableIn(refs) == {o \in Range(refs) : ~heap[o]["published_date"].valid}

\* C15: a record whose published_date cannot be parsed is kept by the run like any
\* other, is scored as the sum of its other components with no recency bonus, and is
\* left out of the ranked list only when the list is full of records that score no
\* less.
UnparsableDateScoredAndRanked ==
  pc \in AfterRank =>
    /\ (topic = NoTopic => UnparsableIn(all_papers) \subseteq Range(filtered_papers))
    /\ \A o \in UnparsableIn(filtered_papers) :
         /\ ImpactScore(heap, o) = heap[o]["upvotes"] * 2
                                   + Get(heap[o], "citations", 0) * 5
                                   + Get(heap[o], "influential_citations", 0) * 10
                                   + ClaimedTopicBonus(heap[o])
                                   + ClaimedVenueBonus(heap[o])
         /\ EligibleInRanking(o)

\* a record with a date that cannot be parsed, ranked first of two
UnparsableDateRankedFirst ==
  /\ pc = "ranked"
  /\ Len(result) = 2
  /\ result[1] \in UnparsableIn(filtered_papers)
  /\ heap[result[2]]["published_date"].valid
  /\ ImpactScore(heap, result[1]) > ImpactScore(heap, result[2])


\* the source label of a dict is the one built from the venue's display name
SourceNamesVenue(paper) ==
  /\ Len(paper.source) = 2
  /\ paper.source[1] = VenueInfo(paper.venue).name

\* C16: in the ranked list every record with a venue set carries a source label
\* built from the venue's display name.
VenueNamedInSource ==
  pc \in AfterRank =>
    \A o \in Range(result) : VenueOf(heap[o]) # None => SourceNamesVenue(heap[o])

\* C19: once send_email has been called, it reported success if the transport
\* accepted the message.
DeliveredWhenTransportAccepts ==
  ("email" \in Range(steps) /\ papers # <<>> /\ transport_ok) => email_success
----------------------------------------------------------------------------
(* get_daily_arxiv_category, called day after day *)

\* the variables of a run other than its position, its clock and ret
pipelineVars ==
  << num_papers, topic, config_ok, heap, hf_papers, arxiv_papers, all_papers,
     filtered_papers, result, papers, summarized_papers, lookups, fetches, steps,
     downloaded, email_success, exit_code, lookup_failed, transport_ok >>

\* no run of the pipeline has started
PipelineIdle ==
  /\ num_papers = 0
  /\ topic = NoTopic
  /\ config_ok = TRUE
  /\ heap = <<>>
  /\ hf_papers = <<>>
  /\ arxiv_papers = <<>>
  /\ all_papers = <<>>
  /\ filtered_papers = <<>>
  /\ result = <<>>
  /\ papers = <<>>
  /\ summarized_papers = <<>>
  /\ lookups = <<>>
  /\ fetches = <<>>
  /\ steps = <<>>
  /\ downloaded = 0
  /\ email_success = FALSE
  /\ exit_code = -1
  /\ lookup_failed = {}
  /\ transport_ok = FALSE

\* the last day of the calendar's clock, in days since 2024-01-01
MaxCalDays == 735

\* the days between one call and the next
DaySteps == {1, 5, 365, 366}

\* the hours of the day at which the first call is made
CallHours == {0, 21}

CalendarInit ==
  /\ pc = "calendar"
  /\ now \in CallHours
  /\ ret = <<>>
  /\ PipelineIdle
  /\ clock = 0
  /\ next_run = 0
  /\ runs = <<>>
  /\ stopped = ""

\* get_daily_arxiv_category(); ret keeps the previous call and this one
CallCategory ==
  /\ pc = "calendar"
  /\ ret' = (IF ret = <<>> THEN <<>> ELSE <<ret[Len(ret)]>>)
              \o <<[at |-> now, category |-> get_daily_arxiv_category(now)]>>
  /\ pc' = "called"
  /\ UNCHANGED << now, pipelineVars, schedulerVars >>

\* days pass before the next call
DaysPass ==
  /\ pc = "called"
  /\ \E d \in DaySteps :
       /\ (now \div HoursPerDay) + d <= MaxCalDays
       /\ now' = now + d * HoursPerDay
  /\ pc' = "calendar"
  /\ UNCHANGED << ret, pipelineVars, schedulerVars >>

CalendarNext ==
  \/ CallCategory
  \/ DaysPass

SpecCalendar == CalendarInit /\ [][CalendarNext]_vars

\* the day of the year of a clock reading, from the lengths of 2024 and 2025
CalendarDay(t) ==
  LET d == t \div HoursPerDay
  IN IF d < 366 THEN d + 1 ELSE IF d < 366 + 365 THEN d - 366 + 1 ELSE d - 366 - 365 + 1

\* C13: every call returns the category at place (day of year mod number of
\* categories) of the list, counting from 0, and two calls on dates whose day of the
\* year is the same modulo the number of categories return the same category.
CategoryByDayOfYear ==
  pc = "called" =>
    /\ \A i \in 1..Len(ret) :
         ret[i].category
           = ARXIV_CATEGORIES[(CalendarDay(ret[i].at) % Len(ARXIV_CATEGORIES)) + 1]
    /\ \A i, j \in 1..Len(ret) :
         CalendarDay(ret[i].at) % Len(ARXIV_CATEGORIES)
           = CalendarDay(ret[j].at) % Len(ARXIV_CATEGORIES)
         => ret[i].category = ret[j].category

\* calls on day 366 of 2024 and on day 1 of 2025: different days of the year, the
\* same remainder, the same category
SameRemainderSameCategory ==
  /\ pc = "called"
  /\ Len(ret) = 2
  /\ CalendarDay(ret[1].at) = 366
  /\ CalendarDay(ret[2].at) = 1
  /\ ret[1].category = ret[2].category


\* the place of a category in the list
CategoryIndex(category) ==
  CHOOSE k \in 1..Len(ARXIV_CATEGORIES) : ARXIV_CATEGORIES[k] = category

\* the category after it in the list, the first after the last
CategorySuccessor(category) ==
  ARXIV_CATEGORIES[(CategoryIndex(category) % Len(ARXIV_CATEGORIES)) + 1]

\* C17: of two calls on consecutive days, the second returns the list successor of
\* the category the first returned.
CategoryCyclesDaily ==
  (pc = "called" /\ Len(ret) = 2 /\ ret[2].at = ret[1].at + HoursPerDay) =>
    ret[2].category = CategorySuccessor(ret[1].category)

----------------------------------------------------------------------------
(* The scheduler: start_scheduler and run_daily_job *)

MinutesPerHour == 60

MinutesPerDay == HoursPerDay * MinutesPerHour

\* SCHEDULE_TIME, by default 21:00, in minutes after midnight
ScheduleMinute == 21 * MinutesPerHour

\* time.sleep(60), in minutes
PollInterval == 1

\* the last day of the scheduler's clock, in days since 2024-01-01
MaxSchedDays == 3

\* how long a run of main can take, in minutes
JobMinutes == {1, 30, MinutesPerDay + 10}

\* the minutes of the first day at which the scheduler is started
StartMinutes == {ScheduleMinute - 2, ScheduleMinute + 1}

\* the job rescheduled for the day it has just run on
SameDayOccurrence(t) == (t \div MinutesPerDay) * MinutesPerDay + ScheduleMinute

\* every().day.at(schedule_time): the first occurrence of the time of day after t
NextOccurrence(t) ==
  LET today == (t \div MinutesPerDay) * MinutesPerDay + ScheduleMinute
  IN IF today > t THEN today ELSE today + MinutesPerDay

SchedulerInit ==
  /\ pc = "poll"
  /\ clock \in StartMinutes
  /\ now = clock \div MinutesPerHour
  /\ next_run = NextOccurrence(clock)
  /\ runs = <<>>
  /\ stopped = ""
  /\ ret = <<>>
  /\ num_papers = 0
  /\ topic = NoTopic
  /\ config_ok \in BOOLEAN
  /\ heap = <<>>
  /\ hf_papers = <<>>
  /\ arxiv_papers = <<>>
  /\ all_papers = <<>>
  /\ filtered_papers = <<>>
  /\ result = <<>>
  /\ papers = <<>>
  /\ summarized_papers = <<>>
  /\ lookups = <<>>
  /\ fetches = <<>>
  /\ steps = <<>>
  /\ downloaded = 0
  /\ email_success = FALSE
  /\ exit_code = -1
  /\ lookup_failed = {}
  /\ transport_ok = FALSE

\* the clock after minutes have passed
Elapse(minutes) ==
  /\ clock + minutes <= MaxSchedDays * MinutesPerDay
  /\ clock' = clock + minutes
  /\ now' = clock' \div MinutesPerHour

\* schedule.run_pending() with the job not due, then time.sleep(60)
PollIdle ==
  /\ pc = "poll"
  /\ clock < next_run
  /\ Elapse(PollInterval)
  /\ UNCHANGED << pc, next_run, runs, stopped, ret, pipelineVars >>

\* schedule.run_pending() with the job due: run_daily_job is called
JobStarts ==
  /\ pc = "poll"
  /\ clock >= next_run
  /\ runs' = Append(runs, clock)
  /\ pc' = "job"
  /\ UNCHANGED << now, clock, next_run, stopped, ret, pipelineVars >>

\* main returns, or raises an Exception that run_daily_job catches; the library
\* sets the next run, and the loop sleeps
JobEnds ==
  /\ pc = "job"
  /\ config_ok
  /\ \E minutes \in JobMinutes :
       /\ Elapse(minutes + PollInterval)
       /\ next_run' = NextOccurrence(clock + minutes)
  /\ ret' \in {<<"returned">>, <<"raised">>}
  /\ pc' = "poll"
  /\ UNCHANGED << runs, stopped, pipelineVars >>

\* main calls sys.exit(1), for missing configuration or for no papers found:
\* SystemExit is not an Exception, no handler catches it, and the process ends
JobAborts ==
  /\ pc = "job"
  /\ \E minutes \in JobMinutes : Elapse(IF config_ok THEN minutes ELSE 0)
  /\ stopped' = "SystemExit"
  /\ exit_code' = 1
  /\ pc' = "ended"
  /\ UNCHANGED << next_run, runs, ret, num_papers, topic, config_ok, heap, hf_papers,
                  arxiv_papers, all_papers, filtered_papers, result, papers,
                  summarized_papers, lookups, fetches, steps, downloaded, email_success,
                  lookup_failed, transport_ok >>

\* Ctrl+C, in the loop or during a run: start_scheduler prints and returns
Interrupt ==
  /\ pc \in {"poll", "job"}
  /\ stopped' = "KeyboardInterrupt"
  /\ pc' = "ended"
  /\ UNCHANGED << now, clock, next_run, runs, ret, pipelineVars >>

SchedulerNext ==
  \/ PollIdle
  \/ JobStarts
  \/ JobEnds
  \/ JobAborts
  \/ Interrupt

SpecScheduler == SchedulerInit /\ [][SchedulerNext]_vars

\* the occurrence of the scheduled time a run started at t belongs to: the number
\* of the day of the last occurrence at or before t
OccurrenceOf(t) == (t - ScheduleMinute) \div MinutesPerDay

\* no two runs were started for the same occurrence of the scheduled time
OnePerOccurrence ==
  \A i, j \in 1..Len(runs) : i # j => OccurrenceOf(runs[i]) # OccurrenceOf(runs[j])

\* a run starts from the polling loop only, never while a run is in progress
StartsFromLoop == runs' # runs => pc = "poll" /\ pc' = "job" /\ Len(runs') = Len(runs) + 1

\* C14: each occurrence of the scheduled time starts at most one run, and no run
\* starts while another is in progress.
AtMostOneRunPerOccurrence == []OnePerOccurrence /\ [][StartsFromLoop]_vars

\* two runs on consecutive days, the second started after the first had ended
RanOnTwoDays ==
  /\ pc = "job"
  /\ Len(runs) = 2
  /\ OccurrenceOf(runs[2]) = OccurrenceOf(runs[1]) + 1

\* C18: the scheduler ends only by an external interrupt.
StoppedOnlyByInterrupt == stopped # "" => stopped = "KeyboardInterrupt"


====
